---- MODULE Spec2Model ----
(***************************************************************************)
(* A model of LabelTsdfIntegrator (global_segment_map/label_tsdf_          *)
(* integrator.h): the per-voxel label update, the candidate generator, the *)
(* greedy label assignment, the multi-threaded integration with its        *)
(* staging map and hashed locks, and the pairwise merge.                   *)
(*                                                                         *)
(* The grid is one-dimensional: voxel v lies in block v \div VoxelsPerSide.*)
(* Blocks are heap objects (shared_ptr): label_layer and                   *)
(* temp_label_block_map map a block index to the identity of a block       *)
(* object, 0 standing for nullptr / no entry.                              *)
(***************************************************************************)
EXTENDS Integers, Sequences, FiniteSets, TLC

---------------------------------------------------------------------------
(* Bounds of the model. *)

NumVoxels == 3
\* segments of one batch
NumSegs == 2
\* points of one cloud, and of the segments of one batch together
MaxPoints == 2
\* overlap counts of a candidate table given to decideLabelPointClouds
MaxCount == 2
\* externally supplied labels and the labels of an initial map: 1..MaxLabel
MaxLabel == 2
\* largest confidence increment passed to updateLabelVoxel
MaxInc == 2
\* worker threads of a multi-threaded integration
NumThreads == 2
\* locks of the hashed lock bank (2^12 in the program)
NumLocks == 2
\* calls the application makes after an integration
MaxCalls == 2
\* calls of integratePointCloud with arrays of any lengths
MaxArrayCalls == 1
\* counters next to each end of the range of Label
CounterSpan == 64
\* points of the segments of a batch that feeds the ledger
MaxLedgerPoints == 4
\* number of updateLabelVoxel calls of a sequential run
MaxWrites == 20
\* number of calls whose arguments are remembered in written
MaxWritten == 4
\* entries of the candidate tables decideLabelPointClouds is run on
MaxPairs == 4

(* Quantities of the program. *)

VoxelsPerSide == 2
\* LabelConfidence is an unsigned 16 bit integer
ConfidenceModulus == 65536
\* Label is an unsigned 16 bit integer
LabelModulus == 65536
\* LabelTsdfConfig::confidence_cap_value
DefaultConfidenceCap == 10
\* LabelTsdfConfig::pairwise_confidence_threshold
DefaultPairwiseThreshold == 2

\* LabelTsdfConfig::pairwise_confidence_ratio_threshold = 0.05f = 1 / 20
RatioThresholdInverse == 20

Voxels == 0 .. (NumVoxels - 1)
Blocks == 0 .. ((NumVoxels - 1) \div VoxelsPerSide)
NumBlocks == Cardinality(Blocks)
Segs == 1 .. NumSegs
Labels == 1 .. MaxLabel
Increments == 1 .. MaxInc
\* cap values of the configurations explored: the default and a small one
CapValues == {1, DefaultConfidenceCap}

VARIABLES
    label_tsdf_config,      \* LabelTsdfConfig
    highest_label,          \* *highest_label_
    blocks,                 \* the Block<LabelVoxel> objects, by identity
    label_layer,            \* label_layer_: block index -> block identity
    temp_label_block_map,   \* temp_label_block_map_
    pairwise_confidence,    \* pairwise_confidence_: label -> label -> count
    segments,               \* the Segment objects of the batch
    candidates,             \* label -> segment -> overlap count
    labelled_segments,      \* decideLabelPointClouds: labelled_segments
    computed,               \* segments computeSegmentLabelCandidates ran for
    pc,                     \* where the caller is
    batch_start,            \* the counter and the table the batch began with
    config,                 \* config_: integrator_threads, enable_anti_grazing
    voxel_map,              \* integratePointCloud: voxel_map
    clear_map,              \* integratePointCloud: clear_map
    clearing_ray,           \* the pass integrateRays is in
    pass_start,             \* the voxels as integratePointCloud found them
    threads,                \* the threads running integrateVoxels
    processed,              \* per work item, the threads that integrated it
    temp_block_mutex,       \* temp_block_mutex_: its holder, 0 when free
    mutexes,                \* mutexes_: the holder of each lock, 0 when free
    merge_it,               \* mergeLabels: the row and the iterator in it
    merge_start,            \* pairwise_confidence_ as mergeLabels found it
    merged,                 \* the pairs mergeLabels has passed to swapLabels
    calls,                  \* calls made by the application
    minted,                 \* the labels getFreshLabel has returned
    writes,                 \* number of calls made so far
    written,                \* the first calls made, as <<label, confidence>>
    last_call               \* the last operation called, its arguments and
                            \* the state it found

mapVars == <<blocks, label_layer, temp_label_block_map>>
batchVars == <<segments, candidates, labelled_segments, computed, batch_start>>
voxelCallVars == <<writes, written>>
passVars == <<config, voxel_map, clear_map, clearing_ray, pass_start>>
threadVars == <<threads, temp_block_mutex, mutexes, processed>>
appVars == <<calls, minted>>
mergeVars == <<merge_it, merge_start, merged>>

vars == <<label_tsdf_config, highest_label, mapVars, pairwise_confidence,
          batchVars, pc, voxelCallVars, passVars, threadVars, appVars,
          mergeVars, last_call>>

---------------------------------------------------------------------------
(* Voxels and blocks. *)

\* LabelVoxel as constructed: label = 0u, label_confidence = 0u
FreshVoxel == [label |-> 0, label_confidence |-> 0]

\* Block<LabelVoxel>(voxels_per_side, ...)
FreshBlock == [i \in 0 .. (VoxelsPerSide - 1) |-> FreshVoxel]

\* getBlockIndexFromGlobalVoxelIndex
BlockIndexOf(v) == v \div VoxelsPerSide

\* getLocalFromGlobalVoxelIndex
LocalIndexOf(v) == v % VoxelsPerSide

\* label_layer_->getBlockPtrByIndex(block_idx), then the voxel of the block;
\* FreshVoxel stands for "no block here"
LayerVoxel(v) ==
    IF label_layer[BlockIndexOf(v)] = 0 THEN FreshVoxel
    ELSE blocks[label_layer[BlockIndexOf(v)]][LocalIndexOf(v)]

\* the voxels of the allocated blocks of the label layer
AllocatedVoxels == {v \in Voxels : label_layer[BlockIndexOf(v)] # 0}

---------------------------------------------------------------------------
(* updateLabelVoxel: the read-modify-write of one voxel. *)

\* the cap applied after a reinforcing write
CapConfidence(c, cfg) ==
    IF cfg.cap_confidence /\ c > cfg.confidence_cap_value
    THEN cfg.confidence_cap_value
    ELSE c

\* the voxel after updateLabelVoxel(point_G, label, confidence, &voxel)
LabelVoxelAfter(voxel, label, confidence, cfg) ==
    IF voxel.label = label
    THEN [voxel EXCEPT !.label_confidence =
              CapConfidence((@ + confidence) % ConfidenceModulus, cfg)]
    ELSE IF voxel.label_confidence = 0
         THEN [label |-> label, label_confidence |-> confidence]
         ELSE [voxel EXCEPT !.label_confidence =
                   (@ - confidence) % ConfidenceModulus]

\* the branch of updateLabelVoxel that adopts the label and runs the
\* compare-and-raise of *highest_label_
AdoptsLabel(voxel, label) ==
    voxel.label # label /\ voxel.label_confidence = 0

\* if (*highest_label_ < label) *highest_label_ = label
RaisedHighest(highest, label) ==
    IF highest < label THEN label ELSE highest

\* one complete call of updateLabelVoxel on voxel v of the label layer by a
\* single thread
UpdateLabelVoxelCall(v, label, confidence) ==
    /\ writes < MaxWrites
    /\ label_layer[BlockIndexOf(v)] # 0
    /\ LET b == label_layer[BlockIndexOf(v)]
           old == blocks[b][LocalIndexOf(v)]
       IN /\ blocks' = [blocks EXCEPT ![b][LocalIndexOf(v)] =
                            LabelVoxelAfter(old, label, confidence,
                                            label_tsdf_config)]
          /\ highest_label' = IF AdoptsLabel(old, label)
                              THEN RaisedHighest(highest_label, label)
                              ELSE highest_label
          /\ last_call' = [op |-> "updateLabelVoxel", voxel |-> v,
                           label |-> label, confidence |-> confidence,
                           before |-> old]
    /\ writes' = writes + 1
    /\ written' = IF writes < MaxWritten
                  THEN Append(written, <<label, confidence>>)
                  ELSE <<>>
    /\ UNCHANGED <<label_tsdf_config, label_layer, temp_label_block_map,
                   pairwise_confidence, batchVars, pc, passVars, threadVars,
                   appVars, mergeVars>>

---------------------------------------------------------------------------
(* Values shared by the operations. *)

NoCall == [op |-> "none"]

\* a std::map with no entry
EmptyMap == [x \in {} |-> 0]

\* a Segment before computeSegmentLabelCandidates has seen it: size is
\* points_C_.size(), hit the nonzero labels of the voxels its points fall on
NoSegment == [size |-> 0, labels_ |-> <<>>, hit |-> {}]

\* mergeLabels is not running
NoIterator == [row |-> 0, key |-> 0]

\* a thread that has not been started, and one that has returned from
\* integrateVoxels
NoThread == [pc |-> "off", i |-> 0, key |-> 0, label |-> 0, ray |-> <<>>,
             block |-> 0, snap |-> [label |-> 0, label_confidence |-> 0],
             hl |-> 0]

DoneThread == [NoThread EXCEPT !.pc = "done"]

\* no integration under way, on one thread and without anti-grazing
NoPass ==
    /\ config = [integrator_threads |-> 1, enable_anti_grazing |-> FALSE]
    /\ voxel_map = <<>>
    /\ clear_map = <<>>
    /\ clearing_ray = FALSE
    /\ pass_start = [v \in Voxels |-> FreshVoxel]
    /\ threads = [t \in 1 .. NumThreads |-> NoThread]
    /\ processed = <<>>
    /\ temp_block_mutex = 0
    /\ mutexes = [m \in 0 .. (NumLocks - 1) |-> 0]
    /\ calls = 0
    /\ minted = {}
    /\ merge_it = NoIterator
    /\ merge_start = EmptyMap
    /\ merged = {}

NoBatch ==
    /\ segments = [s \in Segs |-> NoSegment]
    /\ candidates = EmptyMap
    /\ labelled_segments = {}
    /\ computed = {}
    /\ batch_start = [highest |-> 0, candidates |-> EmptyMap]

\* n copies of x, as n push_backs leave them
Copies(n, x) == [i \in 1 .. n |-> x]

\* getFreshLabel: return ++(*highest_label_), in the width of Label
FreshLabel(highest) == (highest + 1) % LabelModulus

\* CHECK_LT(x, std::numeric_limits<unsigned int>::max()) for a 32 bit
\* unsigned int, compared by 16 bit halves
BelowUnsignedIntMax(x) == x \div 65536 < 65535 \/ x % 65536 < 65535

---------------------------------------------------------------------------
(* The candidate generator: computeSegmentLabelCandidates and its helpers. *)

\* checkForSegmentLabelMergeCandidate: count / size > 0.05f
IsMergeCandidate(label_points_count, segment_points_count) ==
    label_points_count * RatioThresholdInverse > segment_points_count

\* increaseLabelCountForSegment, on st = [candidates, merge, exists]
IncreaseLabelCountForSegment(st, seg, label, size, cfg) ==
    IF label \in DOMAIN st.candidates
    THEN IF seg \in DOMAIN st.candidates[label]
         THEN LET n == st.candidates[label][seg] + 1
              IN [st EXCEPT
                    !.candidates[label][seg] = n,
                    !.merge = IF cfg.enable_pairwise_confidence_merging
                                 /\ IsMergeCandidate(n, size)
                              THEN @ \cup {label}
                              ELSE @]
         ELSE [st EXCEPT !.candidates[label] = (seg :> 1) @@ @]
    ELSE [st EXCEPT !.candidates = (label :> (seg :> 1)) @@ @]

\* the loop of computeSegmentLabelCandidates over the points of the segment,
\* each point given by the voxel it falls on, from point i on
RECURSIVE ScanPoints(_, _, _, _, _)
ScanPoints(points, i, st, seg, cfg) ==
    IF i > Len(points) THEN st
    ELSE LET v == points[i]
             seen == label_layer[BlockIndexOf(v)] # 0
                     /\ LayerVoxel(v).label # 0
         IN ScanPoints(points, i + 1,
                IF seen
                THEN [IncreaseLabelCountForSegment(st, seg, LayerVoxel(v).label,
                                                   Len(points), cfg)
                        EXCEPT !.exists = TRUE]
                ELSE st,
                seg, cfg)

\* increasePairwiseConfidenceCount without the exchange of label1 and
\* label2: the pair is filed under the candidate met first, here the larger
IncreasePairwiseConfidenceCountUnordered(ledger, merge_candidates) ==
    LET Row(a) == IF a \in DOMAIN ledger THEN ledger[a] ELSE EmptyMap
        Partners(a) == IF a \in merge_candidates
                       THEN {b \in merge_candidates : a > b}
                       ELSE {}
        Outer == DOMAIN ledger \cup {a \in merge_candidates : Partners(a) # {}}
    IN [a \in Outer |->
          [b \in DOMAIN Row(a) \cup Partners(a) |->
              (IF b \in DOMAIN Row(a) THEN Row(a)[b] ELSE 0)
              + (IF b \in Partners(a) THEN 1 ELSE 0)]]

\* increasePairwiseConfidenceCount on the merge candidates of one segment
IncreasePairwiseConfidenceCount(ledger, merge_candidates) ==
    LET Row(a) == IF a \in DOMAIN ledger THEN ledger[a] ELSE EmptyMap
        Partners(a) == IF a \in merge_candidates
                       THEN {b \in merge_candidates : a < b}
                       ELSE {}
        Outer == DOMAIN ledger \cup {a \in merge_candidates : Partners(a) # {}}
    IN [a \in Outer |->
          [b \in DOMAIN Row(a) \cup Partners(a) |->
              (IF b \in DOMAIN Row(a) THEN Row(a)[b] ELSE 0)
              + (IF b \in Partners(a) THEN 1 ELSE 0)]]

\* candidates->insert(pair(label, row)): no effect when the key exists
InsertRow(cands, label, row) ==
    IF label \in DOMAIN cands THEN cands ELSE (label :> row) @@ cands

\* computeSegmentLabelCandidates(segment, candidates), the points of the
\* segment given by the voxels they fall on; the caller runs it for the
\* segments of segments_to_integrate in the order of the vector
ComputeSegmentLabelCandidates(seg, points) ==
    /\ pc = "candidates"
    /\ seg \notin computed
    /\ \A t \in Segs : t < seg => t \in computed
    /\ LET st == ScanPoints(points, 1,
                    [candidates |-> candidates, merge |-> {}, exists |-> FALSE],
                    seg, label_tsdf_config)
       IN /\ pairwise_confidence' =
                IF label_tsdf_config.enable_pairwise_confidence_merging
                THEN IncreasePairwiseConfidenceCount(pairwise_confidence,
                                                     st.merge)
                ELSE pairwise_confidence
          /\ IF st.exists
             THEN /\ candidates' = st.candidates
                  /\ highest_label' = highest_label
             ELSE /\ candidates' = InsertRow(st.candidates,
                                        FreshLabel(highest_label),
                                        (seg :> Len(points)))
                  /\ highest_label' = FreshLabel(highest_label)
    /\ segments' = [segments EXCEPT ![seg] =
           [size |-> Len(points), labels_ |-> <<>>,
            hit |-> {LayerVoxel(points[i]).label : i \in 1 .. Len(points)}
                        \ {0}]]
    /\ computed' = computed \cup {seg}
    /\ pc' = IF computed' = Segs THEN "decide" ELSE "candidates"
    /\ last_call' = [op |-> "computeSegmentLabelCandidates", segment |-> seg]
    /\ UNCHANGED <<label_tsdf_config, mapVars, labelled_segments, batch_start,
                   voxelCallVars, passVars, threadVars, appVars,
                   mergeVars>>

---------------------------------------------------------------------------
(* The greedy resolver: getNextSegmentLabelPair and decideLabelPointClouds.*)

\* the (label, segment) pairs the scan of getNextSegmentLabelPair can take
OpenPairs(cands, labelled) ==
    {p \in (DOMAIN cands) \X Segs :
        /\ p[2] \in DOMAIN cands[p[1]]
        /\ p[2] \notin labelled
        /\ cands[p[1]][p[2]] > 0}

\* the order in which getNextSegmentLabelPair walks the two std::maps
WalkedBefore(p, q) == p[1] < q[1] \/ (p[1] = q[1] /\ p[2] <= q[2])

\* getNextSegmentLabelPair: TRUE iff a pair is returned
HasNextSegmentLabelPair(cands, labelled) == OpenPairs(cands, labelled) # {}

\* unlike getNextSegmentLabelPair: the first open pair, whatever its count
FirstOpenPair(cands, labelled) ==
    CHOOSE p \in OpenPairs(cands, labelled) :
        \A q \in OpenPairs(cands, labelled) : WalkedBefore(p, q)

\* unlike getNextSegmentLabelPair: segments already labelled stay open
NextPairOfAnySegment(cands, labelled) ==
    LET open == OpenPairs(cands, {})
    IN CHOOSE p \in open :
        \A q \in open :
            \/ cands[q[1]][q[2]] < cands[p[1]][p[2]]
            \/ cands[q[1]][q[2]] = cands[p[1]][p[2]] /\ WalkedBefore(p, q)

\* getNextSegmentLabelPair: the pair <<label, segment>> returned, the first
\* one walked among those of the largest count (the scan replaces its
\* maximum only on a strictly larger count)
GetNextSegmentLabelPair(cands, labelled) ==
    LET open == OpenPairs(cands, labelled)
    IN CHOOSE p \in open :
        \A q \in open :
            \/ cands[q[1]][q[2]] < cands[p[1]][p[2]]
            \/ cands[q[1]][q[2]] = cands[p[1]][p[2]] /\ WalkedBefore(p, q)

\* candidates->erase(label)
EraseRow(cands, label) == [l \in DOMAIN cands \ {label} |-> cands[l]]

\* one iteration of the while loop of decideLabelPointClouds
DecideRound ==
    /\ pc = "decide"
    /\ HasNextSegmentLabelPair(candidates, labelled_segments)
    /\ LET pair == GetNextSegmentLabelPair(candidates, labelled_segments)
           label == pair[1]
           seg == pair[2]
       IN /\ segments' = [segments EXCEPT ![seg].labels_ =
                             @ \o Copies(segments[seg].size, label)]
          /\ labelled_segments' = labelled_segments \cup {seg}
          /\ candidates' = EraseRow(candidates, label)
          /\ last_call' = [op |-> "decideRound", segment |-> seg,
                           label |-> label]
    /\ UNCHANGED <<label_tsdf_config, highest_label, mapVars,
                   pairwise_confidence, computed, pc, batch_start,
                   voxelCallVars, passVars, threadVars, appVars,
                   mergeVars>>

\* the segments of segments_to_integrate that the while loop left without a
\* label, in the order of the vector
RECURSIVE FallbackLabels(_, _, _, _)
FallbackLabels(segs, s, labelled, highest) ==
    IF s > NumSegs THEN [segments |-> segs, highest |-> highest]
    ELSE IF s \in labelled
         THEN FallbackLabels(segs, s + 1, labelled, highest)
         ELSE FallbackLabels(
                  [segs EXCEPT ![s].labels_ =
                      @ \o Copies(segs[s].size, FreshLabel(highest))],
                  s + 1, labelled, FreshLabel(highest))

\* the end of decideLabelPointClouds: the while loop stops and every
\* segment without a label gets a fresh one
DecideRest ==
    /\ pc = "decide"
    /\ ~HasNextSegmentLabelPair(candidates, labelled_segments)
    /\ LET r == FallbackLabels(segments, 1, labelled_segments, highest_label)
       IN /\ segments' = r.segments
          /\ highest_label' = r.highest
    /\ labelled_segments' = Segs
    /\ pc' = "labelled"
    /\ last_call' = [op |-> "decideRest"]
    /\ UNCHANGED <<label_tsdf_config, mapVars, pairwise_confidence,
                   candidates, computed, batch_start, voxelCallVars, passVars,
                   threadVars, appVars,
                   mergeVars>>

---------------------------------------------------------------------------
(* SpecAssign: one batch of segments is labelled on a map of any content:  *)
(* computeSegmentLabelCandidates for every segment, then                   *)
(* decideLabelPointClouds. The counter starts anywhere, also below a label *)
(* of the map (swapLabels and the unsynchronised raise of the counter      *)
(* leave such maps).                                                       *)

\* the block objects of a map whose voxel v has label lab[v]
BlocksOf(lab) ==
    [i \in 1 .. NumBlocks |->
        [k \in 0 .. (VoxelsPerSide - 1) |->
            LET v == (i - 1) * VoxelsPerSide + k
            IN IF v \in Voxels /\ lab[v] # 0
               THEN [label |-> lab[v], label_confidence |-> 1]
               ELSE FreshVoxel]]

\* a label layer with the blocks alloc, voxels labelled by lab; of the maps
\* that differ by the places of the labels in the allocated blocks, the one
\* with the labels in ascending order
InitMap ==
    \E alloc \in SUBSET Blocks :
        \E lab \in [Voxels -> 0 .. MaxLabel] :
            /\ \A v \in Voxels : BlockIndexOf(v) \notin alloc => lab[v] = 0
            /\ \A v \in Voxels : \A w \in Voxels :
                   (v < w /\ BlockIndexOf(v) \in alloc
                          /\ BlockIndexOf(w) \in alloc) => lab[v] <= lab[w]
            /\ blocks = BlocksOf(lab)
            /\ label_layer = [b \in Blocks |-> IF b \in alloc THEN b + 1 ELSE 0]
            /\ temp_label_block_map = [b \in Blocks |-> 0]

InitAssign ==
    /\ label_tsdf_config \in
         [enable_pairwise_confidence_merging : BOOLEAN,
          pairwise_confidence_threshold : {DefaultPairwiseThreshold},
          cap_confidence : {FALSE},
          confidence_cap_value : {DefaultConfidenceCap}]
    /\ highest_label \in 0 .. MaxLabel
    /\ InitMap
    /\ pairwise_confidence = EmptyMap
    /\ segments = [s \in Segs |-> NoSegment]
    /\ candidates = EmptyMap
    /\ labelled_segments = {}
    /\ computed = {}
    /\ batch_start = [highest |-> highest_label, candidates |-> EmptyMap]
    /\ pc = "candidates"
    /\ NoPass
    /\ writes = 0
    /\ written = <<>>
    /\ last_call = NoCall

\* the points of a segment, each given by the voxel it falls on
PointLists == UNION {[1 .. n -> Voxels] : n \in 0 .. MaxPoints}

\* the points of the segments computeSegmentLabelCandidates has run for
RECURSIVE BatchPoints(_)
BatchPoints(s) == IF s = 0 THEN 0 ELSE BatchPoints(s - 1) + segments[s].size

NextAssign ==
    \/ /\ pc = "candidates"
       /\ \E seg \in Segs \ computed :
            \E points \in {p \in PointLists :
                               BatchPoints(NumSegs) + Len(p) <= MaxPoints + 1} :
              ComputeSegmentLabelCandidates(seg, points)
    \/ DecideRound
    \/ DecideRest

SpecAssign == InitAssign /\ [][NextAssign]_vars

---------------------------------------------------------------------------
(* SpecGreedy: decideLabelPointClouds on any candidate table and on the    *)
(* table of the example, every point of a segment overlapping a label.     *)

\* the points of segment s that the table cands counts
RECURSIVE OverlapSumFrom(_, _, _)
OverlapSumFrom(cands, s, l) ==
    IF l = 0 THEN 0
    ELSE OverlapSumFrom(cands, s, l - 1)
         + (IF l \in DOMAIN cands /\ s \in DOMAIN cands[l]
            THEN cands[l][s] ELSE 0)

OverlapSum(cands, s) == OverlapSumFrom(cands, s, MaxLabel)

\* the rows of a table: overlap counts of some segments, or the row of a
\* fresh label of a segment without points
TableRows ==
    UNION {[S -> 1 .. MaxCount] : S \in SUBSET Segs \ {{}}}
    \cup {(s :> 0) : s \in Segs}

\* {(segA, label1) = 5, (segA, label2) = 3, (segB, label1) = 4}, with
\* segA = 1, segB = 2, label1 = 1, label2 = 2
ExampleTable == (1 :> (1 :> 5 @@ 2 :> 4)) @@ (2 :> (1 :> 3))

\* the number of (label, segment) entries of a table
RECURSIVE TableSizeFrom(_, _)
TableSizeFrom(cands, l) ==
    IF l = 0 THEN 0
    ELSE TableSizeFrom(cands, l - 1)
         + (IF l \in DOMAIN cands THEN Cardinality(DOMAIN cands[l]) ELSE 0)

InitGreedy ==
    /\ label_tsdf_config =
         [enable_pairwise_confidence_merging |-> FALSE,
          pairwise_confidence_threshold |-> DefaultPairwiseThreshold,
          cap_confidence |-> FALSE,
          confidence_cap_value |-> DefaultConfidenceCap]
    /\ highest_label = MaxLabel
    /\ blocks = [i \in 1 .. NumBlocks |-> FreshBlock]
    /\ label_layer = [b \in Blocks |-> 0]
    /\ temp_label_block_map = [b \in Blocks |-> 0]
    /\ pairwise_confidence = EmptyMap
    /\ \/ /\ candidates \in UNION {[D -> TableRows] : D \in SUBSET Labels}
          /\ TableSizeFrom(candidates, MaxLabel) <= MaxPairs
       \/ candidates = ExampleTable
    /\ segments = [s \in Segs |->
                      [NoSegment EXCEPT !.size = OverlapSum(candidates, s)]]
    /\ labelled_segments = {}
    /\ computed = Segs
    /\ batch_start = [highest |-> highest_label, candidates |-> candidates]
    /\ pc = "decide"
    /\ NoPass
    /\ writes = 0
    /\ written = <<>>
    /\ last_call = NoCall

NextGreedy ==
    \/ DecideRound
    \/ DecideRest

SpecGreedy == InitGreedy /\ [][NextGreedy]_vars

---------------------------------------------------------------------------
(* integratePointCloud: the work lists, the rays, the worker threads and   *)
(* the fold-back. A point is [voxel, label]: the voxel its position in the *)
(* world frame falls in and labels[pt_idx]. The sensor origin lies in      *)
(* voxel 0.                                                                *)

\* the elements of a set of numbers in ascending order
RECURSIVE SortedSeq(_)
SortedSeq(S) ==
    IF S = {} THEN <<>>
    ELSE LET m == CHOOSE x \in S : \A y \in S : x <= y
         IN <<m>> \o SortedSeq(S \ {m})

\* bundleRays: one work item per voxel a point falls in, holding the labels
\* of its points in the order of the cloud
BundleRays(points) ==
    LET keys == SortedSeq({points[i].voxel : i \in 1 .. Len(points)})
        LabelsIn(v) ==
            LET InVoxel(q) == q.voxel = v
                sel == SelectSeq(points, InVoxel)
            IN [i \in 1 .. Len(sel) |-> sel[i].label]
    IN [k \in 1 .. Len(keys) |-> [key |-> keys[k], labels |-> LabelsIn(keys[k])]]

\* RayCaster::nextRayIndex: the voxels from the origin to the point; a
\* clearing ray ends one voxel before it
RayVoxels(key, clearing) ==
    [i \in 1 .. (IF clearing THEN key ELSE key + 1) |-> i - 1]

\* the voxels of the ray that integrateVoxel writes: with anti-grazing a
\* voxel that is a key of voxel_map is skipped
WrittenRay(key, clearing, anti_grazing, vmap) ==
    LET keys == {vmap[i].key : i \in 1 .. Len(vmap)}
        Written(x) == ~(anti_grazing /\ (clearing \/ x # key) /\ x \in keys)
    IN SelectSeq(RayVoxels(key, clearing), Written)

\* merged_label of integrateVoxel: the label of the last point of the item,
\* of its first point when clearing
MergedLabel(item, clearing) ==
    IF clearing THEN item.labels[1] ELSE item.labels[Len(item.labels)]

\* the test of integrateVoxels without thread_idx
OwnsItemNoThreadIdx(j, t, n) == j % n = 0

\* integrateVoxels: ((i + thread_idx + 1) % integrator_threads) == 0, for
\* the item j = i + 1 and the thread t = thread_idx + 1
OwnsItem(j, t, n) == (j + t - 1) % n = 0

\* integrateVoxels of thread t from item j on: the thread at the first ray
\* voxel of its next item, or returned
RECURSIVE WorkerAt(_, _, _, _, _, _)
WorkerAt(t, j, work, clearing, cfg, vmap) ==
    IF j > Len(work) THEN DoneThread
    ELSE IF ~OwnsItem(j, t, cfg.integrator_threads)
         THEN WorkerAt(t, j + 1, work, clearing, cfg, vmap)
         ELSE LET ray == WrittenRay(work[j].key, clearing,
                                    cfg.enable_anti_grazing, vmap)
              IN IF ray = <<>>
                 THEN WorkerAt(t, j + 1, work, clearing, cfg, vmap)
                 ELSE [NoThread EXCEPT !.pc = "ray", !.i = j,
                                       !.key = work[j].key,
                                       !.label = MergedLabel(work[j], clearing),
                                       !.ray = ray]

\* the items thread t calls integrateVoxel for in integrateVoxels from item
\* j on, up to the item it stops at with a voxel to write, or to the end
ItemsIntegrated(t, j, work, clearing, cfg, vmap) ==
    LET w == WorkerAt(t, j, work, clearing, cfg, vmap)
        last == IF w.pc = "done" THEN Len(work) ELSE w.i
    IN {k \in j .. last : OwnsItem(k, t, cfg.integrator_threads)}

\* the threads that have called integrateVoxel for each item when the
\* threads of a pass stand at their first voxel
StartedItems(work, clearing, cfg, vmap) ==
    [k \in 1 .. Len(work) |->
        {t \in 1 .. cfg.integrator_threads :
            k \in ItemsIntegrated(t, 1, work, clearing, cfg, vmap)}]

\* the threads integrateRays starts for a pass
StartedThreads(work, clearing, cfg, vmap) ==
    [t \in 1 .. NumThreads |->
        IF t <= cfg.integrator_threads
        THEN WorkerAt(t, 1, work, clearing, cfg, vmap)
        ELSE NoThread]

\* the work list of the pass
WorkList == IF clearing_ray THEN clear_map ELSE voxel_map

\* integratePointCloud up to the start of the threads of the first pass
IntegratePointCloud(points, freespace_points) ==
    /\ pc = "idle"
    /\ calls < MaxCalls
    /\ calls' = calls + 1
    /\ voxel_map' = IF freespace_points THEN <<>> ELSE BundleRays(points)
    /\ clear_map' = IF freespace_points THEN BundleRays(points) ELSE <<>>
    /\ clearing_ray' = FALSE
    /\ pass_start' = [v \in Voxels |-> LayerVoxel(v)]
    /\ threads' = StartedThreads(voxel_map', FALSE, config, voxel_map')
    /\ processed' = StartedItems(voxel_map', FALSE, config, voxel_map')
    /\ pc' = "integrating"
    /\ last_call' = [op |-> "integratePointCloud"]
    /\ UNCHANGED <<label_tsdf_config, highest_label, mapVars,
                   pairwise_confidence, batchVars, voxelCallVars, config,
                   temp_block_mutex, mutexes, minted, mergeVars>>

workerFrame == <<label_tsdf_config, pairwise_confidence, batchVars, pc,
                 voxelCallVars, passVars, appVars, mergeVars, last_call>>

\* allocateStorageAndGetLabelVoxelPtr: the lookup in the label layer
GetBlockPtr(t) ==
    /\ pc = "integrating"
    /\ threads[t].pc = "ray"
    /\ LET b == BlockIndexOf(Head(threads[t].ray))
       IN threads' = [threads EXCEPT
              ![t].block = label_layer[b],
              ![t].pc = IF label_layer[b] # 0 THEN "lock" ELSE "temp"]
    /\ UNCHANGED <<highest_label, mapVars, temp_block_mutex, mutexes,
                   workerFrame,
                   processed>>

\* std::lock_guard<std::mutex> lock(temp_block_mutex_)
LockTempBlocks(t) ==
    /\ pc = "integrating"
    /\ threads[t].pc = "temp"
    /\ temp_block_mutex = 0
    /\ temp_block_mutex' = t
    /\ threads' = [threads EXCEPT ![t].pc = "temp_locked"]
    /\ UNCHANGED <<highest_label, mapVars, mutexes, workerFrame,
                   processed>>

\* an emplace without the find before it, which replaces the entry
CreateTempBlock(t) ==
    /\ pc = "integrating"
    /\ threads[t].pc = "temp_locked"
    /\ blocks' = Append(blocks, FreshBlock)
    /\ temp_label_block_map' =
           [temp_label_block_map EXCEPT
               ![BlockIndexOf(Head(threads[t].ray))] = Len(blocks) + 1]
    /\ threads' = [threads EXCEPT
           ![t].block = Len(blocks) + 1, ![t].pc = "lock"]
    /\ temp_block_mutex' = 0
    /\ UNCHANGED <<highest_label, label_layer, mutexes, workerFrame,
                   processed>>

\* the find or emplace in temp_label_block_map_, and the end of the guard
FindOrCreateTempBlock(t) ==
    /\ pc = "integrating"
    /\ threads[t].pc = "temp_locked"
    /\ LET b == BlockIndexOf(Head(threads[t].ray))
       IN IF temp_label_block_map[b] # 0
          THEN /\ threads' = [threads EXCEPT
                      ![t].block = temp_label_block_map[b], ![t].pc = "lock"]
               /\ UNCHANGED <<blocks, temp_label_block_map>>
          ELSE /\ blocks' = Append(blocks, FreshBlock)
               /\ temp_label_block_map' =
                      [temp_label_block_map EXCEPT ![b] = Len(blocks) + 1]
               /\ threads' = [threads EXCEPT
                      ![t].block = Len(blocks) + 1, ![t].pc = "lock"]
    /\ temp_block_mutex' = 0
    /\ UNCHANGED <<highest_label, label_layer, mutexes, workerFrame,
                   processed>>

\* mutexes_.get(getGridIndexFromPoint(point_G, voxel_size_inv_)): the lock
\* updateLabelVoxel takes for the write of voxel v on the ray to the merged
\* point, which lies in voxel key
MutexOf(key, v) == key % NumLocks

\* updateLabelVoxel: std::lock_guard<std::mutex> lock(mutexes_.get(...))
LockVoxel(t) ==
    /\ pc = "integrating"
    /\ threads[t].pc = "lock"
    /\ LET m == MutexOf(threads[t].key, Head(threads[t].ray))
       IN /\ mutexes[m] = 0
          /\ mutexes' = [mutexes EXCEPT ![m] = t]
    /\ threads' = [threads EXCEPT ![t].pc = "read"]
    /\ UNCHANGED <<highest_label, mapVars, temp_block_mutex, workerFrame,
                   processed>>

\* updateLabelVoxel: the reads of label_voxel
ReadVoxel(t) ==
    /\ pc = "integrating"
    /\ threads[t].pc = "read"
    /\ threads' = [threads EXCEPT
           ![t].snap = blocks[threads[t].block]
                             [LocalIndexOf(Head(threads[t].ray))],
           ![t].pc = "write"]
    /\ UNCHANGED <<highest_label, mapVars, temp_block_mutex, mutexes,
                   workerFrame,
                   processed>>

\* updateLabelVoxel: the writes of label_voxel, with confidence 1u
WriteVoxel(t) ==
    /\ pc = "integrating"
    /\ threads[t].pc = "write"
    /\ blocks' = [blocks EXCEPT
           ![threads[t].block][LocalIndexOf(Head(threads[t].ray))] =
               LabelVoxelAfter(threads[t].snap, threads[t].label, 1,
                               label_tsdf_config)]
    /\ threads' = [threads EXCEPT
           ![t].pc = IF AdoptsLabel(threads[t].snap, threads[t].label)
                     THEN "raise" ELSE "unlock"]
    /\ UNCHANGED <<highest_label, label_layer, temp_label_block_map,
                   temp_block_mutex, mutexes, workerFrame,
                   processed>>

\* updateLabelVoxel: the read of *highest_label_ in the comparison
ReadHighest(t) ==
    /\ pc = "integrating"
    /\ threads[t].pc = "raise"
    /\ threads' = [threads EXCEPT
           ![t].hl = highest_label,
           ![t].pc = IF highest_label < threads[t].label
                     THEN "raise_write" ELSE "unlock"]
    /\ UNCHANGED <<highest_label, mapVars, temp_block_mutex, mutexes,
                   workerFrame,
                   processed>>

\* updateLabelVoxel: *highest_label_ = label
WriteHighest(t) ==
    /\ pc = "integrating"
    /\ threads[t].pc = "raise_write"
    /\ highest_label' = threads[t].label
    /\ threads' = [threads EXCEPT ![t].pc = "unlock"]
    /\ UNCHANGED <<mapVars, temp_block_mutex, mutexes, workerFrame,
                   processed>>

\* updateLabelVoxel returning with its lock held
UnlockVoxelKeepsLock(t) ==
    /\ pc = "integrating"
    /\ threads[t].pc = "unlock"
    /\ mutexes' = mutexes
    /\ threads' = [threads EXCEPT ![t] =
           IF Tail(threads[t].ray) # <<>>
           THEN [NoThread EXCEPT !.pc = "ray", !.i = threads[t].i,
                                 !.key = threads[t].key,
                                 !.label = threads[t].label,
                                 !.ray = Tail(threads[t].ray)]
           ELSE WorkerAt(t, threads[t].i + 1, WorkList, clearing_ray, config,
                         voxel_map)]
    /\ processed' =
           IF Tail(threads[t].ray) # <<>> THEN processed
           ELSE [k \in DOMAIN processed |->
                    IF k \in ItemsIntegrated(t, threads[t].i + 1, WorkList,
                                             clearing_ray, config, voxel_map)
                    THEN processed[k] \cup {t} ELSE processed[k]]
    /\ UNCHANGED <<highest_label, mapVars, temp_block_mutex, workerFrame>>

\* the end of updateLabelVoxel, and integrateVoxel and integrateVoxels up
\* to the next voxel written
UnlockVoxel(t) ==
    /\ pc = "integrating"
    /\ threads[t].pc = "unlock"
    /\ mutexes' = [mutexes EXCEPT
           ![MutexOf(threads[t].key, Head(threads[t].ray))] = 0]
    /\ threads' = [threads EXCEPT ![t] =
           IF Tail(threads[t].ray) # <<>>
           THEN [NoThread EXCEPT !.pc = "ray", !.i = threads[t].i,
                                 !.key = threads[t].key,
                                 !.label = threads[t].label,
                                 !.ray = Tail(threads[t].ray)]
           ELSE WorkerAt(t, threads[t].i + 1, WorkList, clearing_ray, config,
                         voxel_map)]
    /\ processed' =
           IF Tail(threads[t].ray) # <<>> THEN processed
           ELSE [k \in DOMAIN processed |->
                    IF k \in ItemsIntegrated(t, threads[t].i + 1, WorkList,
                                             clearing_ray, config, voxel_map)
                    THEN processed[k] \cup {t} ELSE processed[k]]
    /\ UNCHANGED <<highest_label, mapVars, temp_block_mutex, workerFrame>>

\* updateLabelLayerWithStoredBlocks: label_layer_->insertBlock for every
\* entry of temp_label_block_map_; an index the layer holds keeps its block
InstalledBlocks(layer, temp) ==
    [b \in Blocks |-> IF layer[b] # 0 THEN layer[b] ELSE temp[b]]

\* a join of the first thread only
FirstThreadJoined == threads[1].pc = "done"

\* integrateRays: integrateVoxels has returned on one thread, or
\* thread.join() for every thread of integration_threads
ThreadsJoined ==
    \A t \in 1 .. config.integrator_threads : threads[t].pc = "done"

\* integrateRays from the join of the threads on: the fold-back, then the
\* clearing pass or the return of integratePointCloud. The fold-back
\* clears temp_block_map_, not temp_label_block_map_.
JoinAndFoldBack ==
    /\ pc = "integrating"
    /\ ThreadsJoined
    /\ label_layer' = InstalledBlocks(label_layer, temp_label_block_map)
    /\ IF clearing_ray
       THEN /\ pc' = "idle"
            /\ threads' = [t \in 1 .. NumThreads |-> NoThread]
            /\ processed' = <<>>
            /\ voxel_map' = <<>>
            /\ clear_map' = <<>>
            /\ clearing_ray' = FALSE
            /\ pass_start' = [v \in Voxels |-> FreshVoxel]
       ELSE /\ pc' = "integrating"
            /\ threads' = StartedThreads(clear_map, TRUE, config, voxel_map)
            /\ processed' = StartedItems(clear_map, TRUE, config, voxel_map)
            /\ clearing_ray' = TRUE
            /\ UNCHANGED <<voxel_map, clear_map, pass_start>>
    /\ last_call' = [op |-> "updateLabelLayerWithStoredBlocks"]
    /\ UNCHANGED <<label_tsdf_config, highest_label, blocks,
                   temp_label_block_map, pairwise_confidence, batchVars,
                   voxelCallVars, config, temp_block_mutex, mutexes, appVars,
                   mergeVars>>

---------------------------------------------------------------------------
(* getFreshLabel and swapLabels, called by the application. *)

GetFreshLabel ==
    /\ pc = "idle"
    /\ calls < MaxCalls
    /\ calls' = calls + 1
    /\ IF BelowUnsignedIntMax(highest_label)
       THEN /\ highest_label' = FreshLabel(highest_label)
            /\ minted' = minted \cup {FreshLabel(highest_label)}
            /\ last_call' = [op |-> "getFreshLabel",
                             result |-> FreshLabel(highest_label)]
            /\ pc' = pc
       ELSE /\ pc' = "aborted"
            /\ last_call' = [op |-> "getFreshLabel"]
            /\ UNCHANGED <<highest_label, minted>>
    /\ UNCHANGED <<label_tsdf_config, mapVars, pairwise_confidence, batchVars,
                   voxelCallVars, passVars, threadVars, mergeVars>>

\* swapLabels without the test voxel.label == old_label
SwappedLabelsOfAll(blks, layer, old_label, new_label) ==
    [i \in DOMAIN blks |->
        IF \E b \in Blocks : layer[b] = i
        THEN [k \in DOMAIN blks[i] |-> [blks[i][k] EXCEPT !.label = new_label]]
        ELSE blks[i]]

\* the blocks after swapLabels(old_label, new_label): the voxels of the
\* allocated blocks of the layer that hold old_label get new_label
SwappedLabels(blks, layer, old_label, new_label) ==
    [i \in DOMAIN blks |->
        IF \E b \in Blocks : layer[b] = i
        THEN [k \in DOMAIN blks[i] |->
                 IF blks[i][k].label = old_label
                 THEN [blks[i][k] EXCEPT !.label = new_label]
                 ELSE blks[i][k]]
        ELSE blks[i]]

SwapLabels(old_label, new_label) ==
    /\ pc = "idle"
    /\ calls < MaxCalls
    /\ calls' = calls + 1
    /\ blocks' = SwappedLabels(blocks, label_layer, old_label, new_label)
    /\ last_call' = [op |-> "swapLabels", old_label |-> old_label,
                     new_label |-> new_label]
    /\ UNCHANGED <<label_tsdf_config, highest_label, label_layer,
                   temp_label_block_map, pairwise_confidence, batchVars, pc,
                   voxelCallVars, passVars, threadVars, minted, mergeVars>>

---------------------------------------------------------------------------
(* mergeLabels. merge_it is the position of the two loops: the row of      *)
(* pairwise_confidence_ the outer loop is at and the key the iterator of   *)
(* the inner loop points at, 0 for the end() of the row.                   *)

\* begin() of a std::map, 0 for end()
Begin(row) ==
    IF DOMAIN row = {} THEN 0
    ELSE CHOOSE k \in DOMAIN row : \A x \in DOMAIN row : k <= x

\* ++ of a valid iterator at key k, 0 for end()
Successor(row, k) == Begin([x \in {y \in DOMAIN row : y > k} |-> row[x]])

\* confidence_map.second.erase(key)
ErasePair(ledger, a, key) ==
    [ledger EXCEPT ![a] = [x \in DOMAIN ledger[a] \ {key} |-> ledger[a][x]]]

\* the positions ++ can leave an iterator at whose element has been erased:
\* the iterator is invalid and the increment is undefined, so that it may
\* land on any element left in the row or on end()
AfterErasedIterator(row) == DOMAIN row \cup {0}

MergeLabelsReturn ==
    /\ pc' = "idle"
    /\ merge_it' = NoIterator
    /\ last_call' = [op |-> "mergeLabels"]

\* the call, up to the first element of the first row
MergeLabels ==
    /\ pc = "idle"
    /\ calls < MaxCalls
    /\ calls' = calls + 1
    /\ merge_start' = pairwise_confidence
    /\ IF label_tsdf_config.enable_pairwise_confidence_merging
          /\ DOMAIN pairwise_confidence # {}
       THEN /\ pc' = "merging"
            /\ merge_it' = [row |-> Begin(pairwise_confidence),
                            key |-> Begin(pairwise_confidence[
                                              Begin(pairwise_confidence)])]
            /\ last_call' = last_call
       ELSE MergeLabelsReturn
    /\ UNCHANGED <<label_tsdf_config, highest_label, mapVars,
                   pairwise_confidence, batchVars, voxelCallVars, passVars,
                   threadVars, minted, merged>>

\* the inner loop has reached end(): the outer loop takes the next row, or
\* the call returns
MergeNextRow ==
    /\ pc = "merging"
    /\ merge_it.key = 0
    /\ LET next == Successor(pairwise_confidence, merge_it.row)
       IN IF next # 0
          THEN /\ merge_it' = [row |-> next,
                               key |-> Begin(pairwise_confidence[next])]
               /\ UNCHANGED <<pc, last_call>>
          ELSE MergeLabelsReturn
    /\ UNCHANGED <<label_tsdf_config, highest_label, mapVars,
                   pairwise_confidence, batchVars, voxelCallVars, passVars,
                   threadVars, appVars, merge_start, merged>>

\* a pair whose count does not exceed the threshold is left alone
MergeKeepPair ==
    /\ pc = "merging"
    /\ merge_it.key # 0
    /\ pairwise_confidence[merge_it.row][merge_it.key]
           <= label_tsdf_config.pairwise_confidence_threshold
    /\ merge_it' = [merge_it EXCEPT !.key =
                        Successor(pairwise_confidence[merge_it.row], @)]
    /\ UNCHANGED <<label_tsdf_config, highest_label, mapVars,
                   pairwise_confidence, batchVars, pc, voxelCallVars,
                   passVars, threadVars, appVars, merge_start, merged,
                   last_call>>

\* a pair whose count exceeds the threshold: swapLabels(row, key), the pair
\* is erased, and the iterator that pointed at it is incremented
MergeSwapPair ==
    /\ pc = "merging"
    /\ merge_it.key # 0
    /\ pairwise_confidence[merge_it.row][merge_it.key]
           > label_tsdf_config.pairwise_confidence_threshold
    /\ blocks' = SwappedLabels(blocks, label_layer, merge_it.row,
                               merge_it.key)
    /\ pairwise_confidence' =
           ErasePair(pairwise_confidence, merge_it.row, merge_it.key)
    /\ \E k \in AfterErasedIterator(pairwise_confidence'[merge_it.row]) :
           merge_it' = [merge_it EXCEPT !.key = k]
    /\ merged' = merged \cup {<<merge_it.row, merge_it.key>>}
    /\ UNCHANGED <<label_tsdf_config, highest_label, label_layer,
                   temp_label_block_map, batchVars, pc, voxelCallVars,
                   passVars, threadVars, appVars, merge_start, last_call>>

\* the increment of the invalid iterator ends the process
MergeSwapPairAborts ==
    /\ pc = "merging"
    /\ merge_it.key # 0
    /\ pairwise_confidence[merge_it.row][merge_it.key]
           > label_tsdf_config.pairwise_confidence_threshold
    /\ blocks' = SwappedLabels(blocks, label_layer, merge_it.row,
                               merge_it.key)
    /\ pairwise_confidence' =
           ErasePair(pairwise_confidence, merge_it.row, merge_it.key)
    /\ pc' = "aborted"
    /\ merged' = merged \cup {<<merge_it.row, merge_it.key>>}
    /\ UNCHANGED <<label_tsdf_config, highest_label, label_layer,
                   temp_label_block_map, batchVars, voxelCallVars,
                   passVars, threadVars, appVars, merge_it, merge_start,
                   last_call>>

---------------------------------------------------------------------------
(* Spec: the application integrates labelled point clouds into an empty    *)
(* map, on one thread or on NumThreads, and calls getFreshLabel and        *)
(* swapLabels in between.                                                  *)

Init ==
    /\ label_tsdf_config =
         [enable_pairwise_confidence_merging |-> FALSE,
          pairwise_confidence_threshold |-> DefaultPairwiseThreshold,
          cap_confidence |-> FALSE,
          confidence_cap_value |-> DefaultConfidenceCap]
    /\ highest_label = 0
    /\ blocks = <<>>
    /\ label_layer = [b \in Blocks |-> 0]
    /\ temp_label_block_map = [b \in Blocks |-> 0]
    /\ pairwise_confidence = EmptyMap
    /\ NoBatch
    /\ pc = "idle"
    /\ config \in [integrator_threads : 1 .. NumThreads,
                   enable_anti_grazing : BOOLEAN]
    /\ voxel_map = <<>>
    /\ clear_map = <<>>
    /\ clearing_ray = FALSE
    /\ pass_start = [v \in Voxels |-> FreshVoxel]
    /\ threads = [t \in 1 .. NumThreads |-> NoThread]
    /\ processed = <<>>
    /\ temp_block_mutex = 0
    /\ mutexes = [m \in 0 .. (NumLocks - 1) |-> 0]
    /\ calls = 0
    /\ minted = {}
    /\ merge_it = NoIterator
    /\ merge_start = EmptyMap
    /\ merged = {}
    /\ writes = 0
    /\ written = <<>>
    /\ last_call = NoCall

\* the clouds given to integratePointCloud
Clouds == UNION {[1 .. n -> [voxel : Voxels, label : Labels]] :
                    n \in 1 .. MaxPoints}

Worker(t) ==
    \/ GetBlockPtr(t)
    \/ LockTempBlocks(t)
    \/ FindOrCreateTempBlock(t)
    \/ LockVoxel(t)
    \/ ReadVoxel(t)
    \/ WriteVoxel(t)
    \/ ReadHighest(t)
    \/ WriteHighest(t)
    \/ UnlockVoxel(t)

Next ==
    \/ \E points \in Clouds, freespace_points \in BOOLEAN :
           IntegratePointCloud(points, freespace_points)
    \/ \E t \in 1 .. NumThreads : Worker(t)
    \/ JoinAndFoldBack
    \/ GetFreshLabel
    \/ \E old_label \in Labels, new_label \in Labels :
           SwapLabels(old_label, new_label)

Spec == Init /\ [][Next]_vars

---------------------------------------------------------------------------
(* Properties of the batch labelling. *)

\* the labels the points of segment s carry
LabelsOf(s) == {segments[s].labels_[i] : i \in 1 .. Len(segments[s].labels_)}

\* the nonzero labels held by the voxels of the label layer
MapLabels == {LayerVoxel(v).label : v \in Voxels} \ {0}

(* C4: after computeSegmentLabelCandidates has run for every segment and   *)
(* decideLabelPointClouds once, labels_ of every segment has exactly       *)
(* points_C_.size() entries, all equal to one nonzero label.               *)
C4_EveryPointOneLabel ==
    pc = "labelled" =>
        \A s \in Segs :
            /\ Len(segments[s].labels_) = segments[s].size
            /\ Cardinality(LabelsOf(s)) <= 1
            /\ 0 \notin LabelsOf(s)

\* a batch in which one segment took a label of the map and another one,
\* overlapping the map too, was left to the fresh labels
C4_Witness ==
    /\ pc = "labelled"
    /\ \E s \in Segs : \E t \in Segs \ {s} :
        /\ segments[s].size = MaxPoints /\ segments[t].size > 0
        /\ segments[s].hit # {} /\ segments[t].hit # {}
        /\ LabelsOf(s) \subseteq segments[s].hit
        /\ \A l \in LabelsOf(t) : l > batch_start.highest

(* C5: after decideLabelPointClouds no two distinct segments of the batch  *)
(* carry the same label, taken from the table or freshly minted.           *)
C5_LabelClaimedOnce ==
    pc = "labelled" =>
        \A s \in Segs : \A t \in Segs \ {s} : LabelsOf(s) \cap LabelsOf(t) = {}

\* the count of the pair (a, b) in a ledger, 0 when it has no entry
LedgerCount(ledger, a, b) ==
    IF a \in DOMAIN ledger /\ b \in DOMAIN ledger[a] THEN ledger[a][b] ELSE 0

(* C13: with pairwise merging enabled, one call of                          *)
(* computeSegmentLabelCandidates counts as merge candidates exactly the     *)
(* labels whose overlap count / segment size exceeds                        *)
(* pairwise_confidence_ratio_threshold, a count of 1 included, and adds 1   *)
(* to the ledger entry of every pair of distinct candidates and nothing to  *)
(* any other entry.                                                         *)
C13_Step ==
    (/\ pc = "candidates"
     /\ computed' # computed
     /\ label_tsdf_config.enable_pairwise_confidence_merging) =>
        LET seg == CHOOSE s \in computed' \ computed : TRUE
            over == {l \in segments'[seg].hit :
                        candidates'[l][seg] * RatioThresholdInverse
                            > segments'[seg].size}
        IN \A a \in Labels : \A b \in Labels :
              a < b =>
                 LedgerCount(pairwise_confidence', a, b) =
                     LedgerCount(pairwise_confidence, a, b)
                     + (IF a \in over /\ b \in over THEN 1 ELSE 0)

C13_LedgerCountsCandidates == [][C13_Step]_vars

\* the largest overlap count of the table among the segments not yet
\* claimed, 0 when there is none
MaxOpenCount(cands, labelled) ==
    LET counts == {cands[p[1]][p[2]] :
                      p \in {q \in (DOMAIN cands) \X (Segs \ labelled) :
                                q[2] \in DOMAIN cands[q[1]]}}
    IN IF counts = {} THEN 0
       ELSE CHOOSE m \in counts : \A n \in counts : n <= m

(* C6: every round of the greedy resolver commits a (segment, label) pair  *)
(* whose overlap count is the maximum over the pairs of the remaining      *)
(* table whose segment is not yet claimed, and the loop stops exactly when *)
(* no such pair with count > 0 remains; on the table                       *)
(* {(segA,label1)=5, (segA,label2)=3, (segB,label1)=4} segA gets label1    *)
(* and segB a fresh label.                                                 *)
C6_GreedyRound ==
    pc = "decide" =>
        LET m == MaxOpenCount(candidates, labelled_segments)
        IN /\ m > 0 =>
                /\ pc' = "decide"
                /\ \E l \in DOMAIN candidates :
                     \E s \in (DOMAIN candidates[l]) \ labelled_segments :
                        /\ candidates[l][s] = m
                        /\ labelled_segments' = labelled_segments \cup {s}
                        /\ segments'[s].labels_ = Copies(segments[s].size, l)
                        /\ l \notin DOMAIN candidates'
           /\ m = 0 => pc' = "labelled"
           /\ (pc' = "labelled" /\ batch_start.candidates = ExampleTable) =>
                /\ segments'[1].labels_ = Copies(segments[1].size, 1)
                /\ segments'[2].labels_ =
                       Copies(segments[2].size, batch_start.highest + 1)
                /\ batch_start.highest + 1 \notin DOMAIN ExampleTable

C6_Greedy == [][C6_GreedyRound]_vars

\* the example has been resolved
C6_Witness ==
    /\ pc = "labelled"
    /\ batch_start.candidates = ExampleTable
    /\ LabelsOf(1) = {1}
    /\ LabelsOf(2) = {batch_start.highest + 1}

(* C7: a segment none of whose points falls on an allocated voxel with a   *)
(* nonzero label ends the batch with every point carrying the same         *)
(* brand-new label (a label no voxel of the map and no other segment has), *)
(* strictly greater than the counter before the batch.                     *)
C7_UnseenSegmentFreshLabel ==
    pc = "labelled" =>
        \A s \in Segs :
            segments[s].hit = {} =>
                /\ Len(segments[s].labels_) = segments[s].size
                /\ Cardinality(LabelsOf(s)) <= 1
                /\ \A l \in LabelsOf(s) :
                     /\ l > batch_start.highest
                     /\ l \notin MapLabels
                     /\ \A t \in Segs \ {s} : l \notin LabelsOf(t)

---------------------------------------------------------------------------
(* Properties of the integration. *)

\* thread t is inside updateLabelVoxel, past the lock_guard
InUpdate(t) ==
    threads[t].pc \in {"read", "write", "raise", "raise_write", "unlock"}

\* the voxel thread t is updating: its block object and the index in it
UpdatedVoxel(t) ==
    <<threads[t].block, LocalIndexOf(Head(threads[t].ray))>>

(* C1: in the parallel phase of integrateRays two label writes that target *)
(* the same label voxel are serialized by one lock of the hashed lock      *)
(* bank: no two threads are inside the update of one voxel at a time.      *)
C1_VoxelWritesSerialized ==
    \A t \in 1 .. NumThreads : \A u \in (1 .. NumThreads) \ {t} :
        (InUpdate(t) /\ InUpdate(u)) => UpdatedVoxel(t) # UpdatedVoxel(u)

(* C2: between the operations of the application every nonzero label held  *)
(* by a voxel of the label layer is at most *highest_label_.               *)
C2_LabelsBelowCounter ==
    pc = "idle" => \A l \in MapLabels : l <= highest_label

(* C3: the counter only moves upward, also when worker threads run the     *)
(* compare-and-raise of updateLabelVoxel concurrently, and a label         *)
(* returned by getFreshLabel is neither held by a voxel nor was returned   *)
(* by an earlier getFreshLabel.                                            *)
C3_Step ==
    /\ highest_label' >= highest_label
    /\ (last_call'.op = "getFreshLabel" /\ calls' # calls) =>
           /\ last_call'.result \notin MapLabels
           /\ last_call'.result \notin minted

C3_CounterOnlyUp == [][C3_Step]_vars

\* the threads of the pass have returned: integrateRays is at the fold-back
AtFoldBack ==
    /\ pc = "integrating"
    /\ \A t \in 1 .. config.integrator_threads : threads[t].pc = "done"

(* C12: every fold-back installs every block of temp_label_block_map_ in   *)
(* the label layer and leaves temp_label_block_map_ empty, so that after   *)
(* it no block index is held by both.                                      *)
C12_Step ==
    AtFoldBack =>
        /\ \A b \in Blocks :
               temp_label_block_map[b] # 0 =>
                   label_layer'[b] = temp_label_block_map[b]
        /\ \A b \in Blocks : temp_label_block_map'[b] = 0
        /\ \A b \in Blocks :
               ~(label_layer'[b] # 0 /\ temp_label_block_map'[b] # 0)

C12_FoldBackEmptiesStaging == [][C12_Step]_vars

\* integrateVoxel on its own: the ray of one item written voxel by voxel
\* into the values vals, a function of the voxel
RECURSIVE IntegrateVoxel(_, _, _, _)
IntegrateVoxel(vals, ray, label, lcfg) ==
    IF ray = <<>> THEN vals
    ELSE IntegrateVoxel(
             [vals EXCEPT ![Head(ray)] = LabelVoxelAfter(@, label, 1, lcfg)],
             Tail(ray), label, lcfg)

\* integrateVoxels(..., thread_idx = 0) with integrator_threads = 1, from
\* item j on: every item, in the order of the work list
RECURSIVE IntegrateVoxels(_, _, _, _, _, _, _)
IntegrateVoxels(vals, work, j, clearing, anti_grazing, vmap, lcfg) ==
    IF j > Len(work) THEN vals
    ELSE IntegrateVoxels(
             IntegrateVoxel(vals,
                            WrittenRay(work[j].key, clearing, anti_grazing,
                                       vmap),
                            MergedLabel(work[j], clearing), lcfg),
             work, j + 1, clearing, anti_grazing, vmap, lcfg)

\* integrateRays with integrator_threads = 1, both passes
IntegrateRaysOneThread(vals, vmap, cmap, anti_grazing, lcfg) ==
    IntegrateVoxels(
        IntegrateVoxels(vals, vmap, 1, FALSE, anti_grazing, vmap, lcfg),
        cmap, 1, TRUE, anti_grazing, vmap, lcfg)

\* the voxel allocateStorageAndGetLabelVoxelPtr hands out: of the block of
\* the layer, else of the block of temp_label_block_map_
PassVoxel(v) ==
    LET b == BlockIndexOf(v)
        id == IF label_layer[b] # 0 THEN label_layer[b]
              ELSE temp_label_block_map[b]
    IN IF id = 0 THEN FreshVoxel ELSE blocks[id][LocalIndexOf(v)]

\* C14: when the threads of the last pass of integratePointCloud have
\* returned, every voxel holds the label and the confidence that the same
\* cloud gives on the same map with integrator_threads = 1
C14_SameAsOneThread ==
    (AtFoldBack /\ clearing_ray) =>
        LET alone == IntegrateRaysOneThread(pass_start, voxel_map, clear_map,
                                            config.enable_anti_grazing,
                                            label_tsdf_config)
        IN \A v \in Voxels :
              /\ PassVoxel(v).label = alone[v].label
              /\ PassVoxel(v).label_confidence = alone[v].label_confidence

---------------------------------------------------------------------------
(* SpecVoxel: updateLabelVoxel called again and again on one voxel of an   *)
(* allocated block, under every capping configuration.                     *)


InitVoxel ==
    /\ label_tsdf_config \in
         [enable_pairwise_confidence_merging : {FALSE},
          pairwise_confidence_threshold : {DefaultPairwiseThreshold},
          cap_confidence : BOOLEAN,
          confidence_cap_value : CapValues]
    /\ highest_label = 0
    /\ blocks = [i \in 1 .. NumBlocks |-> FreshBlock]
    /\ label_layer = [b \in Blocks |-> b + 1]
    /\ temp_label_block_map = [b \in Blocks |-> 0]
    /\ pairwise_confidence = EmptyMap
    /\ NoBatch
    /\ pc = "idle"
    /\ NoPass
    /\ writes = 0
    /\ written = <<>>
    /\ last_call = NoCall

NextVoxel ==
    \E label \in Labels, confidence \in Increments :
        UpdateLabelVoxelCall(0, label, confidence)

SpecVoxel == InitVoxel /\ [][NextVoxel]_vars

\* the voxel the calls of SpecVoxel are made on
VoxelUnderUpdate == LayerVoxel(0)

(* C8: updateLabelVoxel follows the three rules for every voxel state and   *)
(* every incoming (L, c): an unobserved voxel or one of confidence 0        *)
(* becomes (L, c); a voxel of label L gets confidence + c, cut to the cap   *)
(* when capping is enabled; a voxel of another label and confidence > 0     *)
(* keeps its label and gets confidence - c. Writing A once and B three      *)
(* times with c = 1 on a fresh voxel yields (B, 2). The same-label case of  *)
(* a voxel of confidence 0 is read as the second rule, and the example as  *)
(* one made without a cap below 2.                                         *)
C8_ThreeRules ==
    /\ last_call.op = "updateLabelVoxel" =>
         LET old == last_call.before
             L == last_call.label
             c == last_call.confidence
             new == VoxelUnderUpdate
         IN /\ ((old.label = 0 \/ old.label_confidence = 0) /\ old.label # L)
                    => new = [label |-> L, label_confidence |-> c]
            /\ old.label = L
                    => /\ new.label = L
                       /\ new.label_confidence =
                            IF label_tsdf_config.cap_confidence
                               /\ old.label_confidence + c >
                                      label_tsdf_config.confidence_cap_value
                            THEN label_tsdf_config.confidence_cap_value
                            ELSE old.label_confidence + c
            /\ (old.label # L /\ old.label_confidence > 0)
                    => /\ new.label = old.label
                       /\ new.label_confidence = old.label_confidence - c
    /\ \A A \in Labels : \A B \in Labels \ {A} :
         (/\ written = <<(<<A, 1>>), (<<B, 1>>), (<<B, 1>>), (<<B, 1>>)>>
          /\ (label_tsdf_config.cap_confidence
                 => label_tsdf_config.confidence_cap_value >= 2))
             => VoxelUnderUpdate = [label |-> B, label_confidence |-> 2]

(* C9: with cap_confidence enabled the confidence of a voxel never exceeds  *)
(* confidence_cap_value, whatever sequence of updateLabelVoxel calls was    *)
(* made on it; 20 writes of one label with cap 10 and increment 1 leave a   *)
(* confidence of at most 10.                                                *)
C9_ConfidenceCapped ==
    label_tsdf_config.cap_confidence =>
        VoxelUnderUpdate.label_confidence
            <= label_tsdf_config.confidence_cap_value

---------------------------------------------------------------------------
(* SpecMerge: mergeLabels called on every map of a few labels and every    *)
(* ledger over them, with merging enabled and disabled.                    *)

\* the labels of the maps and ledgers of SpecMerge
MergeLabelSet == 1 .. (MaxLabel + 1)

\* the counts of the pairs of the ledgers: at the threshold and above it
PairCounts == {DefaultPairwiseThreshold, DefaultPairwiseThreshold + 1}

\* the ledgers increasePairwiseConfidenceCount can build: a row per smaller
\* label of a pair, no row without a pair
Ledgers ==
    LET Pairs == {p \in MergeLabelSet \X MergeLabelSet : p[1] < p[2]}
        Ledger(cnt) ==
            [a \in {p[1] : p \in {q \in Pairs : cnt[q] > 0}} |->
                [b \in {x \in MergeLabelSet : a < x /\ cnt[<<a, x>>] > 0} |->
                    cnt[<<a, b>>]]]
    IN {Ledger(cnt) : cnt \in [Pairs -> {0} \cup PairCounts]}

\* the maps of SpecMerge: every voxel unobserved or of one of the labels
MergeVoxels ==
    {FreshVoxel} \cup [label : MergeLabelSet, label_confidence : {1}]

InitMerge ==
    /\ label_tsdf_config \in
         [enable_pairwise_confidence_merging : BOOLEAN,
          pairwise_confidence_threshold : {DefaultPairwiseThreshold},
          cap_confidence : {FALSE},
          confidence_cap_value : {DefaultConfidenceCap}]
    /\ highest_label = MaxLabel + 1
    /\ blocks \in [1 .. NumBlocks -> [0 .. (VoxelsPerSide - 1) -> MergeVoxels]]
    /\ label_layer = [b \in Blocks |-> b + 1]
    /\ temp_label_block_map = [b \in Blocks |-> 0]
    /\ pairwise_confidence \in Ledgers
    /\ NoBatch
    /\ pc = "idle"
    /\ NoPass
    /\ writes = 0
    /\ written = <<>>
    /\ last_call = NoCall

NextMerge ==
    \/ MergeLabels
    \/ MergeNextRow
    \/ MergeKeepPair
    \/ MergeSwapPair
    \/ MergeSwapPairAborts

SpecMerge == InitMerge /\ [][NextMerge]_vars

\* the pairs whose count exceeded the threshold when mergeLabels was called
PairsToMerge ==
    {p \in MergeLabelSet \X MergeLabelSet :
        /\ p[1] \in DOMAIN merge_start
        /\ p[2] \in DOMAIN merge_start[p[1]]
        /\ merge_start[p[1]][p[2]]
               > label_tsdf_config.pairwise_confidence_threshold}

(* C10: when a call of mergeLabels with pairwise merging enabled has        *)
(* returned, no voxel of the map holds the superseded (smaller) label of a *)
(* pair whose count exceeded the threshold when the call began, and the    *)
(* ledger does not hold that pair any more.                                *)
C10_MergedPairsGone ==
    (/\ pc = "idle"
     /\ last_call.op = "mergeLabels"
     /\ label_tsdf_config.enable_pairwise_confidence_merging) =>
        \A p \in PairsToMerge :
            /\ p[1] \notin MapLabels
            /\ ~(/\ p[1] \in DOMAIN pairwise_confidence
                 /\ p[2] \in DOMAIN pairwise_confidence[p[1]])

---------------------------------------------------------------------------
(* SpecPipeline: one batch is labelled on a map with a ledger, and the     *)
(* caller then integrates the clouds of its segments with the labels they  *)
(* were given and calls mergeLabels, in any order.                         *)

\* the ledgers over the labels of the initial maps
PipelineLedgers ==
    {EmptyMap} \cup
    {(a :> (b :> n)) : <<a, b, n>> \in
        {t \in Labels \X Labels \X PairCounts : t[1] < t[2]}}

InitPipeline ==
    /\ label_tsdf_config =
         [enable_pairwise_confidence_merging |-> TRUE,
          pairwise_confidence_threshold |-> DefaultPairwiseThreshold,
          cap_confidence |-> FALSE,
          confidence_cap_value |-> DefaultConfidenceCap]
    /\ highest_label \in (MaxLabel - 1) .. MaxLabel
    /\ InitMap
    /\ pairwise_confidence \in PipelineLedgers
    /\ segments = [s \in Segs |-> NoSegment]
    /\ candidates = EmptyMap
    /\ labelled_segments = {}
    /\ computed = {}
    /\ batch_start = [highest |-> highest_label, candidates |-> EmptyMap]
    /\ pc = "candidates"
    /\ NoPass
    /\ writes = 0
    /\ written = <<>>
    /\ last_call = NoCall

\* decideLabelPointClouds has returned: the caller holds the labels
BatchLabelled ==
    /\ pc = "labelled"
    /\ pc' = "idle"
    /\ UNCHANGED <<label_tsdf_config, highest_label, mapVars,
                   pairwise_confidence, batchVars, voxelCallVars, passVars,
                   threadVars, appVars, mergeVars, last_call>>

\* the clouds of segment s: as many points as the segment has, anywhere on
\* the grid, with the labels of the segment
SegmentClouds(s) ==
    {[i \in 1 .. segments[s].size |->
         [voxel |-> vs[i], label |-> segments[s].labels_[i]]] :
       vs \in [1 .. segments[s].size -> Voxels]}

NextPipeline ==
    \/ NextAssign
    \/ BatchLabelled
    \/ /\ pc = "idle"
       /\ \E s \in Segs : \E points \in SegmentClouds(s) :
              /\ points # <<>>
              /\ IntegratePointCloud(points, FALSE)
    \/ \E t \in 1 .. NumThreads : Worker(t)
    \/ JoinAndFoldBack
    \/ MergeLabels
    \/ MergeNextRow
    \/ MergeKeepPair
    \/ MergeSwapPair
    \/ MergeSwapPairAborts

SpecPipeline == InitPipeline /\ [][NextPipeline]_vars

\* the labels mergeLabels has superseded
Superseded == {p[1] : p \in merged}

(* C11: once mergeLabels has superseded a label, no voxel of the label     *)
(* layer holds that label again, whatever is called afterwards, and        *)
(* mergeLabels does not merge the same pair a second time.                 *)
C11_Step ==
    /\ Superseded' \cap MapLabels' = {}
    /\ (pc = "merging" /\ pairwise_confidence' # pairwise_confidence)
           => <<merge_it.row, merge_it.key>> \notin merged

C11_MergeIrreversible == [][C11_Step]_vars

---------------------------------------------------------------------------
(* integratePointCloud with its three per-point arrays. points_C gives the *)
(* voxel of every point; of colors only the length matters; labels[pt_idx] *)
(* is what integrateVoxel reads for the point, which for an index past the *)
(* end of labels is an out-of-bounds read of the vector and yields any     *)
(* value.                                                                  *)

\* the arrays of a call: the points with the label read for each, and the
\* lengths of colors and labels
CloudArrays ==
    {a \in [points : UNION {[1 .. n -> [voxel : Voxels, label : 0 .. MaxLabel]]
                               : n \in 1 .. MaxPoints},
            colors : 0 .. (MaxPoints + 1),
            labels : 0 .. (MaxPoints + 1)] :
        \A i \in 1 .. Len(a.points) :
            i <= a.labels => a.points[i].label \in Labels}

\* integratePointCloud up to the start of the threads of the first pass.
\* DCHECK_EQ(points_C.size(), colors.size()) aborts in a build with the
\* debug checks on and is compiled out otherwise.
IntegratePointCloudArrays(arrays, dcheck_is_on) ==
    /\ pc = "idle"
    /\ calls < MaxArrayCalls
    /\ calls' = calls + 1
    /\ last_call' = [op |-> "integratePointCloud",
                     points_C |-> Len(arrays.points),
                     colors |-> arrays.colors,
                     labels |-> arrays.labels,
                     highest_label |-> highest_label,
                     blocks |-> blocks]
    /\ IF dcheck_is_on /\ Len(arrays.points) # arrays.colors
       THEN /\ pc' = "aborted"
            /\ UNCHANGED <<voxel_map, clear_map, clearing_ray, pass_start,
                           threads, processed>>
       ELSE /\ voxel_map' = BundleRays(arrays.points)
            /\ clear_map' = <<>>
            /\ clearing_ray' = FALSE
            /\ pass_start' = [v \in Voxels |-> LayerVoxel(v)]
            /\ threads' = StartedThreads(voxel_map', FALSE, config, voxel_map')
            /\ processed' = StartedItems(voxel_map', FALSE, config, voxel_map')
            /\ pc' = "integrating"
    /\ UNCHANGED <<label_tsdf_config, highest_label, mapVars,
                   pairwise_confidence, batchVars, voxelCallVars, config,
                   temp_block_mutex, mutexes, minted, mergeVars>>

InitArrays == Init /\ config.integrator_threads = 1

NextArrays ==
    \/ \E arrays \in CloudArrays, dcheck_is_on \in BOOLEAN :
           IntegratePointCloudArrays(arrays, dcheck_is_on)
    \/ \E t \in 1 .. NumThreads : Worker(t)
    \/ JoinAndFoldBack

SpecArrays == InitArrays /\ [][NextArrays]_vars

\* the last call was integratePointCloud with colors or labels of another
\* length than points_C
MismatchedCall ==
    /\ last_call.op = "integratePointCloud"
    /\ \/ last_call.colors # last_call.points_C
       \/ last_call.labels # last_call.points_C

\* C15: a call of integratePointCloud with colors or labels of another
\* length than points_C has aborted, and the blocks, the voxels, the
\* counter and the ledger are as the call found them
C15_MismatchAborts ==
    MismatchedCall =>
        /\ pc = "aborted"
        /\ blocks = last_call.blocks
        /\ highest_label = last_call.highest_label
        /\ \A v \in Voxels : PassVoxel(v) = pass_start[v]
        /\ pairwise_confidence = EmptyMap

---------------------------------------------------------------------------
(* getFreshLabel on its own, from any counter near the ends of the range   *)
(* of Label.                                                               *)

\* the counters getFreshLabel is called with
Counters == (0 .. CounterSpan)
                \cup ((LabelModulus - 1 - CounterSpan) .. (LabelModulus - 1))

InitFresh ==
    /\ label_tsdf_config =
         [enable_pairwise_confidence_merging |-> FALSE,
          pairwise_confidence_threshold |-> DefaultPairwiseThreshold,
          cap_confidence |-> FALSE,
          confidence_cap_value |-> DefaultConfidenceCap]
    /\ highest_label \in Counters
    /\ blocks = <<>>
    /\ label_layer = [b \in Blocks |-> 0]
    /\ temp_label_block_map = [b \in Blocks |-> 0]
    /\ pairwise_confidence = EmptyMap
    /\ NoBatch
    /\ pc = "idle"
    /\ NoPass
    /\ writes = 0
    /\ written = <<>>
    /\ last_call = NoCall

NextFresh == GetFreshLabel

SpecFresh == InitFresh /\ [][NextFresh]_vars

\* C16: a call of getFreshLabel with the counter at the largest value of
\* Label aborts and leaves the counter as it is; any other call returns the
\* counter plus one, which is not 0 and is above the counter, and leaves
\* it in the counter
C16_Step ==
    (pc = "idle" /\ calls' = calls + 1 /\ last_call'.op = "getFreshLabel") =>
        IF highest_label = LabelModulus - 1
        THEN pc' = "aborted" /\ highest_label' = highest_label
        ELSE /\ pc' = "idle"
             /\ last_call'.result = highest_label + 1
             /\ highest_label' = highest_label + 1
             /\ last_call'.result # 0
             /\ last_call'.result > highest_label

---------------------------------------------------------------------------
(* One integratePointCloud on the map as constructed, on any number of     *)
(* threads: the two passes of integrateRays.                               *)

InitThreads == Init

\* the clouds of the call: the points in any voxels, all of one label
ThreadClouds ==
    {points \in Clouds : \A i \in 1 .. Len(points) : points[i].label = 1}

NextThreads ==
    \/ /\ pc = "idle"
       /\ calls = 0
       /\ \E points \in ThreadClouds, freespace_points \in BOOLEAN :
              IntegratePointCloud(points, freespace_points)
    \/ \E t \in 1 .. NumThreads : Worker(t)
    \/ JoinAndFoldBack

SpecThreads == InitThreads /\ [][NextThreads]_vars

\* C17: in a pass over a work list, the item of index i (item i + 1 here)
\* is integrated by no thread but the one of index thread_idx (thread
\* thread_idx + 1 here) with (i + thread_idx + 1) mod T = 0, by at most
\* one thread at any time, and by exactly one when all threads have
\* returned
C17_EachItemOneThread ==
    pc = "integrating" =>
        /\ DOMAIN processed = 1 .. Len(WorkList)
        /\ \A k \in DOMAIN processed :
              /\ \A t \in processed[k] :
                    /\ t \in 1 .. config.integrator_threads
                    /\ ((k - 1) + (t - 1) + 1) % config.integrator_threads = 0
              /\ Cardinality(processed[k]) <= 1
              /\ AtFoldBack => Cardinality(processed[k]) = 1

\* all threads of a pass on NumThreads threads have returned, and two
\* items were integrated by two threads
C17_Witness ==
    /\ AtFoldBack
    /\ config.integrator_threads = NumThreads
    /\ \E j \in DOMAIN processed, k \in DOMAIN processed :
          /\ j # k
          /\ \E t \in processed[j], u \in processed[k] : t # u

\* C18: a step that changes the label layer is a fold-back, and a fold-back
\* (the step that ends a pass) is taken only when no thread is inside
\* integrateVoxels
C18_Step ==
    /\ label_layer' # label_layer => clearing_ray' # clearing_ray
    /\ clearing_ray' # clearing_ray =>
          /\ last_call'.op = "updateLabelLayerWithStoredBlocks"
          /\ \A t \in 1 .. NumThreads : threads[t].pc \in {"done", "off"}

C18_OnlyFoldBackInstalls == [][C18_Step]_vars

\* the fold-back of the first pass on NumThreads threads has installed a
\* block, after two threads integrated an item each
C18_Witness ==
    /\ clearing_ray
    /\ config.integrator_threads = NumThreads
    /\ Len(voxel_map) >= NumThreads
    /\ last_call.op = "updateLabelLayerWithStoredBlocks"
    /\ \E b \in Blocks : label_layer[b] # 0

\* the threads that hold the voxel pointer allocateStorageAndGetLabelVoxelPtr
\* returned
HoldsVoxelPtr(t) ==
    threads[t].pc \in {"lock", "read", "write", "raise", "raise_write",
                       "unlock"}

\* C19: during a pass every block is the block of exactly one block index,
\* in the label layer or in temp_label_block_map_, and every thread that
\* holds a voxel pointer holds it into the block of the block index of its
\* voxel: threads at voxels of one block index hold the same block
C19_OneStagedBlock ==
    pc = "integrating" =>
        /\ \A id \in 1 .. Len(blocks) :
              Cardinality({b \in Blocks :
                  label_layer[b] = id \/ temp_label_block_map[b] = id}) = 1
        /\ \A t \in 1 .. config.integrator_threads :
              HoldsVoxelPtr(t) =>
                  LET b == BlockIndexOf(Head(threads[t].ray))
                  IN /\ threads[t].block # 0
                     /\ threads[t].block =
                            IF label_layer[b] # 0 THEN label_layer[b]
                            ELSE temp_label_block_map[b]

\* two threads hold voxel pointers into the same block, which is in
\* temp_label_block_map_ and not in the label layer
C19_Witness ==
    /\ pc = "integrating"
    /\ \E t \in 1 .. NumThreads, u \in 1 .. NumThreads :
          /\ t # u
          /\ HoldsVoxelPtr(t) /\ HoldsVoxelPtr(u)
          /\ threads[t].block = threads[u].block
          /\ label_layer[BlockIndexOf(Head(threads[t].ray))] = 0
          /\ temp_label_block_map[BlockIndexOf(Head(threads[t].ray))]
                 = threads[t].block

---------------------------------------------------------------------------
(* The same under fair scheduling: a thread that can take a step           *)
(* eventually takes one, and so does integrateRays once the threads have   *)
(* returned.                                                               *)

SpecThreadsLive ==
    /\ InitThreads
    /\ [][NextThreads]_vars
    /\ \A t \in 1 .. NumThreads : WF_vars(Worker(t))
    /\ WF_vars(JoinAndFoldBack)

\* the number of locks thread t holds: temp_block_mutex_ and those of
\* mutexes_
LocksHeld(t) ==
    (IF temp_block_mutex = t THEN 1 ELSE 0)
        + Cardinality({m \in DOMAIN mutexes : mutexes[m] = t})

\* C20: no thread ever holds two locks, and an integration that has
\* started returns: every thread finishes, the threads are joined and
\* the fold-back of the last pass runs
C20_BatchCompletes ==
    /\ [](\A t \in 1 .. NumThreads : LocksHeld(t) <= 1)
    /\ (pc = "integrating") ~> (pc = "idle" /\ calls = 1)

\* a thread is about to wait for the lock of a voxel that another thread
\* holds
C20_Witness ==
    /\ pc = "integrating"
    /\ \E t \in 1 .. NumThreads, u \in 1 .. NumThreads :
          /\ t # u
          /\ threads[t].pc = "lock"
          /\ mutexes[MutexOf(threads[t].key, Head(threads[t].ray))] = u

---------------------------------------------------------------------------
(* The ledger over a batch and merges: computeSegmentLabelCandidates and   *)
(* decideLabelPointClouds for a batch whose first segment is large enough  *)
(* to have two merge candidates and whose other segments have no points,   *)
(* and mergeLabels before and after the batch.                             *)

\* the points of a segment, by the voxels they fall on, in ascending order
LedgerPointLists ==
    {p \in UNION {[1 .. n -> Voxels] : n \in 0 .. MaxLedgerPoints} :
        \A i \in 1 .. Len(p) : \A j \in 1 .. Len(p) : i < j => p[i] <= p[j]}

\* a ledger, a map and no batch yet
InitLedger ==
    /\ label_tsdf_config =
         [enable_pairwise_confidence_merging |-> TRUE,
          pairwise_confidence_threshold |-> DefaultPairwiseThreshold,
          cap_confidence |-> FALSE,
          confidence_cap_value |-> DefaultConfidenceCap]
    /\ highest_label = MaxLabel
    /\ InitMap
    /\ pairwise_confidence \in PipelineLedgers
    /\ NoBatch
    /\ pc = "idle"
    /\ NoPass
    /\ writes = 0
    /\ written = <<>>
    /\ last_call = NoCall

\* the caller starts its batch: computeSegmentLabelCandidates for the
\* first segment is next
StartBatch ==
    /\ pc = "idle"
    /\ computed = {}
    /\ pc' = "candidates"
    /\ batch_start' = [highest |-> highest_label, candidates |-> EmptyMap]
    /\ UNCHANGED <<label_tsdf_config, highest_label, mapVars,
                   pairwise_confidence, segments, candidates,
                   labelled_segments, computed, voxelCallVars, passVars,
                   threadVars, appVars, mergeVars, last_call>>

NextLedger ==
    \/ /\ pc = "candidates"
       /\ \E seg \in Segs \ computed :
            \E points \in (IF seg = 1 THEN LedgerPointLists ELSE {<<>>}) :
              ComputeSegmentLabelCandidates(seg, points)
    \/ DecideRound
    \/ DecideRest
    \/ BatchLabelled
    \/ StartBatch
    \/ MergeLabels
    \/ MergeNextRow
    \/ MergeKeepPair
    \/ MergeSwapPair
    \/ MergeSwapPairAborts

SpecLedger == InitLedger /\ [][NextLedger]_vars

\* every entry of pairwise_confidence_ has its smaller label as the outer
\* key and a count of 1 or more
LedgerInOrder ==
    \A a \in DOMAIN pairwise_confidence :
        \A b \in DOMAIN pairwise_confidence[a] :
            a < b /\ pairwise_confidence[a][b] >= 1

\* outside mergeLabels every entry stays, with a count not below the one
\* it had
C21_Step ==
    (pc # "merging" /\ pc' # "merging") =>
        \A a \in DOMAIN pairwise_confidence :
            \A b \in DOMAIN pairwise_confidence[a] :
                /\ a \in DOMAIN pairwise_confidence'
                /\ b \in DOMAIN pairwise_confidence'[a]
                /\ pairwise_confidence'[a][b] >= pairwise_confidence[a][b]

\* C21: in every state every entry of the ledger is keyed by two labels,
\* the smaller one first, with a count of 1 or more, and no step outside
\* mergeLabels removes an entry or lowers its count
C21_LedgerOrderedAndGrowing == []LedgerInOrder /\ [][C21_Step]_vars

\* an entry of the ledger has been counted up past the counts of the
\* initial ledgers, and another has been created
C21_Witness ==
    /\ \E a \in DOMAIN pairwise_confidence :
          \E b \in DOMAIN pairwise_confidence[a] :
              \A n \in PairCounts : pairwise_confidence[a][b] > n
    /\ computed # {}

---------------------------------------------------------------------------
(* The confidence of a voxel under a write of another label.               *)

\* C22: a call of updateLabelVoxel with a label other than the one of the
\* voxel, on a voxel of confidence k > 0 and with the increment c, leaves
\* the confidence k - c when k >= c and 0 otherwise, never a value above k
C22_NoWraparound ==
    last_call.op = "updateLabelVoxel" =>
        LET k == last_call.before.label_confidence
            c == last_call.confidence
        IN (last_call.before.label # last_call.label /\ k > 0) =>
              /\ VoxelUnderUpdate.label_confidence
                     = (IF k >= c THEN k - c ELSE 0)
              /\ VoxelUnderUpdate.label_confidence <= k

---------------------------------------------------------------------------
(* swapLabels on its own: every pair of labels, 0 included, on every map   *)
(* and ledger of InitLedger, called up to MaxCalls times.                  *)

NextSwap ==
    \E old_label \in 0 .. MaxLabel, new_label \in 0 .. MaxLabel :
        SwapLabels(old_label, new_label)

SpecSwap == InitLedger /\ [][NextSwap]_vars

\* C23: a call swapLabels(old, new) gives the label new to the voxels of
\* the layer that held old and leaves the confidence of every voxel, the
\* label of every other voxel, the blocks of the layer, the counter and
\* the ledger as they were; a second call with the same arguments right
\* after it changes nothing
C23_Step ==
    (calls' = calls + 1 /\ last_call'.op = "swapLabels") =>
        /\ \A v \in AllocatedVoxels :
              /\ LayerVoxel(v)'.label_confidence
                     = LayerVoxel(v).label_confidence
              /\ LayerVoxel(v)'.label =
                     IF LayerVoxel(v).label = last_call'.old_label
                     THEN last_call'.new_label
                     ELSE LayerVoxel(v).label
        /\ label_layer' = label_layer
        /\ temp_label_block_map' = temp_label_block_map
        /\ Len(blocks') = Len(blocks)
        /\ highest_label' = highest_label
        /\ pairwise_confidence' = pairwise_confidence
        /\ (/\ last_call.op = "swapLabels"
            /\ last_call.old_label = last_call'.old_label
            /\ last_call.new_label = last_call'.new_label) => blocks' = blocks

====
